---- MODULE Spec2Model ----
(***************************************************************************)
(* Model of the Sparkle Arduino LED library (src/Sparkle.h,                *)
(* src/Sparkle.cpp): the per-LED state machine LedDef and the group layer  *)
(* Sparkle.  Time (millis()) is a fixed-width counter that wraps; the      *)
(* width is scaled down from 32 bits to ClockBits bits so that the wrap is *)
(* within reach of the model checker.  Durations are scaled accordingly.   *)
(***************************************************************************)
EXTENDS Integers, Sequences, FiniteSets, TLC

VARIABLES
  leds,    \* the LedDef objects of the caller's list, indexed 0..n-1
  count,   \* Sparkle::count
  hw,      \* the pins: direction and level last written, indexed by pin
  clock,   \* the value millis() returns
  call,    \* the last public operation called, with its target and arguments
  prev,    \* leds and hw as they were when that operation was called
  writes,  \* the digitalWrite calls that operation issued, in order
  pc       \* the sketch's position: "setup" or "loop"

vars == <<leds, count, hw, clock, call, prev, writes, pc>>

----------------------------------------------------------------------------
(* Bounds of the model *)

\* width of the millisecond counter, in bits (32 on the target)
ClockBits == 2
\* largest duration passed to setBlink / setTimer
MaxDur == 2
\* largest bound passed to setRandomBlink
MaxRandDur == 3
\* largest time that passes between two calls
MaxTick == 2
\* last instant at which the group specification lets time pass
GroupHorizon == 1
\* largest number of members of a long list beyond the first CountMod
MaxOver == 3

ClockMod == 2 ^ ClockBits

\* Sparkle::count is an unsigned char
CountMod == 256

(* enum LedColor: the enumerators the model uses *)
ANY == 0
RED == 2
BLUE == 7

Colors == {ANY, RED, BLUE}

Modes == {"DISABLED", "TIMED", "BLINK", "BLINK_RANDOM", "FADE", "MANUAL"}

\* arguments of setBlink and setTimer: zero and two positive durations
Durations == {0, 1, MaxDur}

\* arguments of the calls of the specification that lets every call be made
\* at any time: zero and one positive duration
CoarseDurations == {0, MaxDur}

\* arguments (minOff, maxOff, minOn, maxOn) of setRandomBlink: ranges with
\* min < max, with min > max and with min = max, and one zero in each place
RandomArgs ==
  { <<1, MaxRandDur, 1, MaxRandDur>>, <<MaxRandDur, 1, MaxRandDur, 1>>,
    <<1, 2, 2, MaxRandDur>>, <<2, 2, 1, 1>>,
    <<0, MaxRandDur, 1, MaxRandDur>>, <<1, 0, 1, MaxRandDur>>,
    <<1, MaxRandDur, 0, MaxRandDur>>, <<1, MaxRandDur, 1, 0>>,
    <<0, 0, 0, 0>> }

CoarseRandomArgs ==
  { <<MaxDur, MaxDur, MaxDur, MaxDur>>, <<0, MaxDur, MaxDur, MaxDur>>,
    <<MaxDur, MaxDur, MaxDur, 0>> }

\* the lists of LEDs, by colour, a Sparkle is built over
ColorLists == { <<RED, BLUE, RED>>, <<ANY, RED>> }

\* the lengths of the long lists a Sparkle is built over: one more than
\* an unsigned char holds, up to MaxOver more than that
LongLists == { CountMod + k : k \in 0 .. MaxOver }

----------------------------------------------------------------------------
(* Platform primitives *)

\* the values random(min, max) can return: min when min >= max, else
\* a value of min .. max-1
RandomRange(min, max) == IF min >= max THEN {min} ELSE min .. (max - 1)

\* the values random(2) can return
RandomCoin == {0, 1}

----------------------------------------------------------------------------
(* LedDef.  Each operation is an operator from the object (and the inputs  *)
(* it reads) to the object afterwards and the levels it wrote to its pin.  *)

\* The constructor.  ledIsOn is not in the initializer list: its value is
\* whatever the storage held (garbage).
LedDef(ledPin, ledColor, ledCommonCathode, pwmCapable, garbage) ==
  [ pin |-> ledPin, color |-> ledColor, commonCathode |-> ledCommonCathode,
    pwm |-> pwmCapable, ledIsOn |-> garbage, displayMode |-> "DISABLED",
    blinkOnDuration |-> 0, blinkOffDuration |-> 0, timerDuration |-> 0,
    randMinOffDuration |-> 0, randMaxOffDuration |-> 0,
    randMinOnDuration |-> 0, randMaxOnDuration |-> 0,
    randOffDuration |-> 0, randOnDuration |-> 0, lastTime |-> 0 ]

Res(l, w) == [led |-> l, w |-> w]

\* (variant: the off level of a common-anode LED whatever the polarity)
OffLevelAnode(l) == "HIGH"

OffLevel(l) == IF l.commonCathode THEN "LOW" ELSE "HIGH"

OnLevel(l) == IF l.commonCathode THEN "HIGH" ELSE "LOW"

off(l) == Res([l EXCEPT !.ledIsOn = FALSE], <<OffLevel(l)>>)

on(l) == Res([l EXCEPT !.ledIsOn = TRUE], <<OnLevel(l)>>)

\* (variant: switching off disables the LED)
turnOffDisable(l) ==
  LET r == off(l) IN Res([r.led EXCEPT !.displayMode = "DISABLED"], r.w)

turnOff(l) ==
  LET r == off(l) IN Res([r.led EXCEPT !.displayMode = "MANUAL"], r.w)

\* (variant: the display mode is left as it was)
turnOnKeepMode(l) == on(l)

turnOn(l) ==
  LET r == on(l) IN Res([r.led EXCEPT !.displayMode = "MANUAL"], r.w)

\* (variant: the LED is switched off but the display mode is kept)
initPinKeepMode(l) == off(l)

\* pinMode(pin, OUTPUT) is applied by the InitPin action; the rest is turnOff
initPin(l) == turnOff(l)

getColor(l) == l.color

isOn(l) == l.ledIsOn

\* (variant: committing the durations also selects the Blink mode)
setBlinkSelectMode(l, onDuration, offDuration) ==
  IF onDuration > 0 /\ offDuration > 0
  THEN Res([l EXCEPT !.blinkOnDuration = onDuration,
                     !.blinkOffDuration = offDuration,
                     !.displayMode = "BLINK"], <<>>)
  ELSE Res(l, <<>>)

setBlink(l, onDuration, offDuration) ==
  IF onDuration > 0 /\ offDuration > 0
  THEN Res([l EXCEPT !.blinkOnDuration = onDuration,
                     !.blinkOffDuration = offDuration], <<>>)
  ELSE Res(l, <<>>)

\* (variant: no effect while an automatic mode is running)
startBlinkIfIdle(l, now) ==
  IF /\ l.blinkOnDuration > 0 /\ l.blinkOffDuration > 0
     /\ l.displayMode \in {"DISABLED", "MANUAL"}
  THEN LET r == on(l) IN
       Res([r.led EXCEPT !.lastTime = now, !.displayMode = "BLINK"], r.w)
  ELSE Res(l, <<>>)

startBlink(l, now) ==
  IF l.blinkOnDuration > 0 /\ l.blinkOffDuration > 0
  THEN LET r == on(l) IN
       Res([r.led EXCEPT !.lastTime = now, !.displayMode = "BLINK"], r.w)
  ELSE Res(l, <<>>)

\* (variant: every positive argument is stored, whatever the others are)
setRandomBlinkPartial(l, minOff, maxOff, minOn, maxOn) ==
  Res([l EXCEPT
         !.randMinOffDuration = IF minOff > 0 THEN minOff ELSE @,
         !.randMaxOffDuration = IF maxOff > 0 THEN maxOff ELSE @,
         !.randMinOnDuration = IF minOn > 0 THEN minOn ELSE @,
         !.randMaxOnDuration = IF maxOn > 0 THEN maxOn ELSE @], <<>>)

setRandomBlink(l, minOff, maxOff, minOn, maxOn) ==
  IF minOff > 0 /\ maxOff > 0 /\ minOn > 0 /\ maxOn > 0
  THEN Res([l EXCEPT !.randMinOffDuration = minOff,
                     !.randMaxOffDuration = maxOff,
                     !.randMinOnDuration = minOn,
                     !.randMaxOnDuration = maxOn], <<>>)
  ELSE Res(l, <<>>)

RandCommitted(l) ==
  /\ l.randMinOffDuration > 0 /\ l.randMaxOffDuration > 0
  /\ l.randMinOnDuration > 0 /\ l.randMaxOnDuration > 0

\* (variant: the phase is entered without storing a sampled duration)
startRandomBlinkNoSample(l, now, coin, sample) ==
  IF RandCommitted(l)
  THEN LET r == IF coin # 0 THEN on(l) ELSE off(l)
       IN Res([r.led EXCEPT !.lastTime = now,
                            !.displayMode = "BLINK_RANDOM"], r.w)
  ELSE Res(l, <<>>)

\* coin is the value of random(2), sample that of the random(min, max) call
startRandomBlink(l, now, coin, sample) ==
  IF RandCommitted(l)
  THEN LET r == IF coin # 0
                THEN LET a == on(l) IN
                     Res([a.led EXCEPT !.randOnDuration = sample], a.w)
                ELSE LET a == off(l) IN
                     Res([a.led EXCEPT !.randOffDuration = sample], a.w)
       IN Res([r.led EXCEPT !.lastTime = now,
                            !.displayMode = "BLINK_RANDOM"], r.w)
  ELSE Res(l, <<>>)

\* (variant: the on duration is drawn from the off range and conversely)
StartSamplesSwapped(l, coin) ==
  IF ~RandCommitted(l) THEN {0}
  ELSE IF coin # 0
       THEN RandomRange(l.randMinOffDuration, l.randMaxOffDuration)
       ELSE RandomRange(l.randMinOnDuration, l.randMaxOnDuration)

\* the values the random(min, max) call of startRandomBlink can return
StartSamples(l, coin) ==
  IF ~RandCommitted(l) THEN {0}
  ELSE IF coin # 0
       THEN RandomRange(l.randMinOnDuration, l.randMaxOnDuration)
       ELSE RandomRange(l.randMinOffDuration, l.randMaxOffDuration)

setTimer(l, duration) ==
  IF duration > 0 THEN Res([l EXCEPT !.timerDuration = duration], <<>>)
  ELSE Res(l, <<>>)

\* (variant: the timer starts whether or not a duration was set)
startTimerUnguarded(l, now) ==
  LET r == on(l) IN
  Res([r.led EXCEPT !.lastTime = now, !.displayMode = "TIMED"], r.w)

\* (variant: the start time is not recorded)
startTimerNoStamp(l, now) ==
  IF l.timerDuration > 0
  THEN LET r == on(l) IN Res([r.led EXCEPT !.displayMode = "TIMED"], r.w)
  ELSE Res(l, <<>>)

\* (variant: the timer is started without switching the LED on)
startTimerDark(l, now) ==
  IF l.timerDuration > 0
  THEN Res([l EXCEPT !.lastTime = now, !.displayMode = "TIMED"], <<>>)
  ELSE Res(l, <<>>)

startTimer(l, now) ==
  IF l.timerDuration > 0
  THEN LET r == on(l) IN
       Res([r.led EXCEPT !.lastTime = now, !.displayMode = "TIMED"], r.w)
  ELSE Res(l, <<>>)

\* (variant: one tick before the sum is reached)
ExpiredEarly(now, lastTime, duration) ==
  now + 1 >= (lastTime + duration) % ClockMod

\* (variant: > in place of >=)
ExpiredLate(now, lastTime, duration) == now > (lastTime + duration) % ClockMod

\* now >= (lastTime + duration), in unsigned long arithmetic
Expired(now, lastTime, duration) == now >= (lastTime + duration) % ClockMod

\* (variant: the Timed rule also runs in Manual mode)
updateTimesManual(l, now, sample) ==
  CASE l.displayMode = "BLINK" ->
         IF l.ledIsOn
         THEN IF Expired(now, l.lastTime, l.blinkOnDuration)
              THEN LET r == off(l) IN Res([r.led EXCEPT !.lastTime = now], r.w)
              ELSE Res(l, <<>>)
         ELSE IF Expired(now, l.lastTime, l.blinkOffDuration)
              THEN LET r == on(l) IN Res([r.led EXCEPT !.lastTime = now], r.w)
              ELSE Res(l, <<>>)
    [] l.displayMode = "BLINK_RANDOM" ->
         IF l.ledIsOn
         THEN IF Expired(now, l.lastTime, l.randOnDuration)
              THEN LET r == off(l) IN
                   Res([r.led EXCEPT !.lastTime = now,
                                     !.randOffDuration = sample], r.w)
              ELSE Res(l, <<>>)
         ELSE IF Expired(now, l.lastTime, l.randOffDuration)
              THEN LET r == on(l) IN
                   Res([r.led EXCEPT !.lastTime = now,
                                     !.randOnDuration = sample], r.w)
              ELSE Res(l, <<>>)
    [] l.displayMode \in {"TIMED", "MANUAL"} ->
         IF l.ledIsOn /\ Expired(now, l.lastTime, l.timerDuration)
         THEN LET r == off(l) IN Res([r.led EXCEPT !.displayMode = "MANUAL"], r.w)
         ELSE Res(l, <<>>)
    [] OTHER -> Res(l, <<>>)

\* sample is the value of the random(min, max) call, when one is made
update(l, now, sample) ==
  CASE l.displayMode = "BLINK" ->
         IF l.ledIsOn
         THEN IF Expired(now, l.lastTime, l.blinkOnDuration)
              THEN LET r == off(l) IN Res([r.led EXCEPT !.lastTime = now], r.w)
              ELSE Res(l, <<>>)
         ELSE IF Expired(now, l.lastTime, l.blinkOffDuration)
              THEN LET r == on(l) IN Res([r.led EXCEPT !.lastTime = now], r.w)
              ELSE Res(l, <<>>)
    [] l.displayMode = "BLINK_RANDOM" ->
         IF l.ledIsOn
         THEN IF Expired(now, l.lastTime, l.randOnDuration)
              THEN LET r == off(l) IN
                   Res([r.led EXCEPT !.lastTime = now,
                                     !.randOffDuration = sample], r.w)
              ELSE Res(l, <<>>)
         ELSE IF Expired(now, l.lastTime, l.randOffDuration)
              THEN LET r == on(l) IN
                   Res([r.led EXCEPT !.lastTime = now,
                                     !.randOnDuration = sample], r.w)
              ELSE Res(l, <<>>)
    [] l.displayMode = "TIMED" ->
         IF l.ledIsOn /\ Expired(now, l.lastTime, l.timerDuration)
         THEN LET r == off(l) IN Res([r.led EXCEPT !.displayMode = "MANUAL"], r.w)
         ELSE Res(l, <<>>)
    [] OTHER -> Res(l, <<>>)

\* the values the random(min, max) call of update can return (0 stands for
\* no call)
UpdateSamples(l, now) ==
  IF l.displayMode # "BLINK_RANDOM" THEN {0}
  ELSE IF l.ledIsOn
       THEN IF Expired(now, l.lastTime, l.randOnDuration)
            THEN RandomRange(l.randMinOffDuration, l.randMaxOffDuration)
            ELSE {0}
       ELSE IF Expired(now, l.lastTime, l.randOffDuration)
            THEN RandomRange(l.randMinOnDuration, l.randMaxOnDuration)
            ELSE {0}

----------------------------------------------------------------------------
(* The calls of a sketch on one LedDef object.  Every action records the   *)
(* call, the list as it was before it and the pin writes it issued.        *)

Idx == DOMAIN leds

Call(op, target, args) == [op |-> op, target |-> target, args |-> args]

\* the digitalWrite calls of one LedDef operation, as (pin, level) pairs
Tag(pin, w) == [k \in 1 .. Len(w) |-> [pin |-> pin, level |-> w[k]]]

\* the pins after the writes w of the object on pin p
Drive(h, p, w) == IF w = <<>> THEN h ELSE [h EXCEPT ![p].level = w[Len(w)]]

\* the effect of one LedDef operation with result r on object i
Do(op, i, args, r) ==
  /\ leds' = [leds EXCEPT ![i] = r.led]
  /\ hw' = Drive(hw, leds[i].pin, r.w)
  /\ writes' = Tag(leds[i].pin, r.w)
  /\ call' = Call(op, i, args)
  /\ prev' = [leds |-> leds, hw |-> hw]
  /\ UNCHANGED <<count, clock>>

InitPin(i) ==
  LET r == initPin(leds[i]) IN
  /\ leds' = [leds EXCEPT ![i] = r.led]
  /\ hw' = Drive([hw EXCEPT ![leds[i].pin].dir = "OUTPUT"], leds[i].pin, r.w)
  /\ writes' = Tag(leds[i].pin, r.w)
  /\ call' = Call("initPin", i, <<>>)
  /\ prev' = [leds |-> leds, hw |-> hw]
  /\ UNCHANGED <<count, clock>>

TurnOff(i) == Do("turnOff", i, <<>>, turnOff(leds[i]))

TurnOn(i) == Do("turnOn", i, <<>>, turnOn(leds[i]))

SetBlink(i, onDuration, offDuration) ==
  Do("setBlink", i, <<onDuration, offDuration>>,
     setBlink(leds[i], onDuration, offDuration))

StartBlink(i) == Do("startBlink", i, <<>>, startBlink(leds[i], clock))

SetRandomBlink(i, minOff, maxOff, minOn, maxOn) ==
  Do("setRandomBlink", i, <<minOff, maxOff, minOn, maxOn>>,
     setRandomBlink(leds[i], minOff, maxOff, minOn, maxOn))

StartRandomBlink(i) ==
  \E coin \in RandomCoin : \E sample \in StartSamples(leds[i], coin) :
    Do("startRandomBlink", i, <<>>,
       startRandomBlink(leds[i], clock, coin, sample))

SetTimer(i, duration) ==
  Do("setTimer", i, <<duration>>, setTimer(leds[i], duration))

StartTimer(i) == Do("startTimer", i, <<>>, startTimer(leds[i], clock))

Update(i) ==
  \E sample \in UpdateSamples(leds[i], clock) :
    Do("update", i, <<>>, update(leds[i], clock, sample))

\* time passes between two calls; the counter wraps
Tick(d) ==
  /\ clock' = (clock + d) % ClockMod
  /\ call' = Call("tick", -1, <<d>>)
  /\ prev' = [leds |-> leds, hw |-> hw]
  /\ writes' = <<>>
  /\ UNCHANGED <<leds, count, hw>>

----------------------------------------------------------------------------
(* Sparkle.  Each method is the loop of the source over members 0 ..       *)
(* count-1, carrying the list, the pins and the writes issued so far.      *)

\* the loop state after member i's operation with result r
Member(st, i, r) ==
  [ leds |-> [st.leds EXCEPT ![i] = r.led],
    hw |-> Drive(st.hw, st.leds[i].pin, r.w),
    writes |-> st.writes \o Tag(st.leds[i].pin, r.w) ]

RECURSIVE initPinsLoop(_, _)
initPinsLoop(st, i) ==
  IF i >= count THEN st
  ELSE initPinsLoop(
         Member([st EXCEPT !.hw[st.leds[i].pin].dir = "OUTPUT"], i,
                initPin(st.leds[i])),
         i + 1)

RECURSIVE allOffLoop(_, _)
allOffLoop(st, i) ==
  IF i >= count THEN st
  ELSE allOffLoop(Member(st, i, turnOff(st.leds[i])), i + 1)

RECURSIVE allOnLoop(_, _)
allOnLoop(st, i) ==
  IF i >= count THEN st
  ELSE allOnLoop(Member(st, i, turnOn(st.leds[i])), i + 1)

\* (variant: ANY matches every member)
RECURSIVE turnOnAllColorWild(_, _, _)
turnOnAllColorWild(st, color, i) ==
  IF i >= count THEN st
  ELSE turnOnAllColorWild(
         IF color = ANY \/ getColor(st.leds[i]) = color
         THEN Member(st, i, turnOn(st.leds[i])) ELSE st,
         color, i + 1)

RECURSIVE turnOnAllColorLoop(_, _, _)
turnOnAllColorLoop(st, color, i) ==
  IF i >= count THEN st
  ELSE turnOnAllColorLoop(
         IF getColor(st.leds[i]) = color
         THEN Member(st, i, turnOn(st.leds[i])) ELSE st,
         color, i + 1)

RECURSIVE turnOffAllColorLoop(_, _, _)
turnOffAllColorLoop(st, color, i) ==
  IF i >= count THEN st
  ELSE turnOffAllColorLoop(
         IF getColor(st.leds[i]) = color
         THEN Member(st, i, turnOff(st.leds[i])) ELSE st,
         color, i + 1)

\* (variant: the members are visited from the last to the first)
RECURSIVE updateLoopBackwards(_, _, _, _)
updateLoopBackwards(st, now, samples, i) ==
  IF i >= count THEN st
  ELSE LET j == count - 1 - i IN
       updateLoopBackwards(Member(st, j, update(st.leds[j], now, samples[j])),
                           now, samples, i + 1)

\* samples[i] is the value of the random(min, max) call of member i's update
RECURSIVE updateLoop(_, _, _, _)
updateLoop(st, now, samples, i) ==
  IF i >= count THEN st
  ELSE updateLoop(Member(st, i, update(st.leds[i], now, samples[i])),
                  now, samples, i + 1)

\* the values the random(min, max) calls of one Sparkle::update can return
GroupSamples(now) ==
  LET S == [i \in Idx |-> IF i < count THEN UpdateSamples(leds[i], now)
                          ELSE {0}]
  IN { f \in [Idx -> UNION {S[i] : i \in Idx}] : \A i \in Idx : f[i] \in S[i] }

Start == [leds |-> leds, hw |-> hw, writes |-> <<>>]

\* the effect of one Sparkle method that leaves the loop state st
Group(op, args, st) ==
  /\ leds' = st.leds
  /\ hw' = st.hw
  /\ writes' = st.writes
  /\ call' = Call(op, -1, args)
  /\ prev' = [leds |-> leds, hw |-> hw]
  /\ UNCHANGED <<count, clock>>

InitPins == Group("Sparkle::initPins", <<>>, initPinsLoop(Start, 0))

AllOff == Group("Sparkle::allOff", <<>>, allOffLoop(Start, 0))

AllOn == Group("Sparkle::allOn", <<>>, allOnLoop(Start, 0))

TurnOnAllColor(color) ==
  Group("Sparkle::turnOnAllColor", <<color>>, turnOnAllColorLoop(Start, color, 0))

TurnOffAllColor(color) ==
  Group("Sparkle::turnOffAllColor", <<color>>, turnOffAllColorLoop(Start, color, 0))

SparkleUpdate ==
  \E samples \in GroupSamples(clock) :
    Group("Sparkle::update", <<>>, updateLoop(Start, clock, samples, 0))

----------------------------------------------------------------------------
(* Construction *)

\* Sparkle::Sparkle over a list of n LedDef objects
SparkleCount(n) == n % CountMod

\* the state once the list of n objects and the Sparkle over it are built
Built(n, colorOf, cathodeOf, garbageOf) ==
  /\ leds = [i \in 0 .. (n - 1) |->
               LedDef(i, colorOf[i], cathodeOf[i], FALSE, garbageOf[i])]
  /\ count = SparkleCount(n)
  /\ hw = [p \in 0 .. (n - 1) |-> [dir |-> "INPUT", level |-> "NONE"]]
  /\ clock = 0
  /\ call = Call("new", -1, <<>>)
  /\ prev = [leds |-> leds, hw |-> hw]
  /\ writes = <<>>
  /\ pc = "setup"

\* one LED of either polarity
Init ==
  \E c \in BOOLEAN, g \in BOOLEAN :
    Built(1, [i \in {0} |-> ANY], [i \in {0} |-> c], [i \in {0} |-> g])

(* Any call on the LED at any time, the counter wrapping. *)
Next ==
  /\ \/ \E i \in Idx : InitPin(i)
     \/ \E i \in Idx : TurnOff(i)
     \/ \E i \in Idx : TurnOn(i)
     \/ \E i \in Idx : \E a, b \in CoarseDurations : SetBlink(i, a, b)
     \/ \E i \in Idx : StartBlink(i)
     \/ \E i \in Idx : \E q \in CoarseRandomArgs :
          SetRandomBlink(i, q[1], q[2], q[3], q[4])
     \/ \E i \in Idx : StartRandomBlink(i)
     \/ \E i \in Idx : \E d \in CoarseDurations : SetTimer(i, d)
     \/ \E i \in Idx : StartTimer(i)
     \/ \E i \in Idx : Update(i)
     \/ \E d \in 1 .. MaxTick : Tick(d)
  /\ UNCHANGED pc

Spec == Init /\ [][Next]_vars

(* The configuration and start calls alone, at one instant. *)
NextConfig ==
  /\ \/ \E i \in Idx : \E a, b \in Durations : SetBlink(i, a, b)
     \/ \E i \in Idx : StartBlink(i)
     \/ \E i \in Idx : \E q \in RandomArgs :
          SetRandomBlink(i, q[1], q[2], q[3], q[4])
     \/ \E i \in Idx : StartRandomBlink(i)
     \/ \E i \in Idx : \E d \in Durations : SetTimer(i, d)
     \/ \E i \in Idx : StartTimer(i)
  /\ UNCHANGED pc

SpecConfig == Init /\ [][NextConfig]_vars

(* Random blinking, reconfigured and restarted at any time, the counter    *)
(* wrapping.                                                               *)
NextRandom ==
  /\ \/ \E i \in Idx : \E q \in RandomArgs :
          SetRandomBlink(i, q[1], q[2], q[3], q[4])
     \/ \E i \in Idx : StartRandomBlink(i)
     \/ \E i \in Idx : Update(i)
     \/ \E d \in 1 .. MaxTick : Tick(d)
  /\ UNCHANGED pc

SpecRandom == Init /\ [][NextRandom]_vars

(* A sketch that initialises the pin, configures one mode and starts one   *)
(* in setup(), and from then on only calls update() in loop().  At most    *)
(* MaxTick passes between two calls, and the run ends before the counter   *)
(* wraps.                                                                  *)
PollInitPin == pc = "setup" /\ InitPin(0) /\ pc' = "config"

PollSetBlink ==
  pc = "config" /\ (\E a, b \in Durations : SetBlink(0, a, b)) /\ pc' = "start"

PollSetTimer ==
  pc = "config" /\ (\E d \in Durations : SetTimer(0, d)) /\ pc' = "start"

PollSetRandomBlink ==
  /\ pc = "config"
  /\ \E q \in RandomArgs : SetRandomBlink(0, q[1], q[2], q[3], q[4])
  /\ pc' = "start"

PollStartBlink == pc = "start" /\ StartBlink(0) /\ pc' = "loop"

PollStartTimer == pc = "start" /\ StartTimer(0) /\ pc' = "loop"

PollStartRandomBlink == pc = "start" /\ StartRandomBlink(0) /\ pc' = "loop"

PollUpdate == pc = "loop" /\ Update(0) /\ pc' = "loop"

PollTick ==
  /\ call.op # "tick"
  /\ \E d \in 1 .. MaxTick : clock + d < ClockMod /\ Tick(d)
  /\ UNCHANGED pc

NextPoll ==
  \/ PollInitPin
  \/ PollSetBlink
  \/ PollSetTimer
  \/ PollSetRandomBlink
  \/ PollStartBlink
  \/ PollStartTimer
  \/ PollStartRandomBlink
  \/ PollUpdate
  \/ PollTick

SpecPoll == Init /\ [][NextPoll]_vars

(* A Sparkle over a list of LEDs of several colours; the sketch also     *)
(* calls the members directly.                                             *)
InitSparkle ==
  \E colors \in ColorLists, c \in BOOLEAN :
    \E g \in [0 .. (Len(colors) - 1) -> BOOLEAN] :
      Built(Len(colors), [i \in 0 .. (Len(colors) - 1) |-> colors[i + 1]],
            [i \in 0 .. (Len(colors) - 1) |-> c], g)

NextSparkle ==
  /\ \/ InitPins
     \/ AllOff
     \/ AllOn
     \/ \E color \in Colors : TurnOnAllColor(color)
     \/ \E color \in Colors : TurnOffAllColor(color)
     \/ SparkleUpdate
     \/ \E i \in Idx : SetTimer(i, 1)
     \/ \E i \in Idx : StartTimer(i)
     \/ clock < GroupHorizon /\ Tick(1)
  /\ UNCHANGED pc

SpecSparkle == InitSparkle /\ [][NextSparkle]_vars

(* A Sparkle over a long list of LEDs alike, driven through the group     *)
(* methods.                                                                *)
InitLong ==
  \E n \in LongLists, c \in BOOLEAN, g \in BOOLEAN :
    Built(n, [i \in 0 .. (n - 1) |-> ANY], [i \in 0 .. (n - 1) |-> c],
          [i \in 0 .. (n - 1) |-> g])

NextLong ==
  /\ \/ InitPins
     \/ AllOff
     \/ AllOn
     \/ SparkleUpdate
  /\ UNCHANGED pc

SpecLong == InitLong /\ [][NextLong]_vars

----------------------------------------------------------------------------
(* Properties.  Pre and Post are the object the last call was made on,     *)
(* before and after the call.                                              *)

OnLed(op) == call.op = op /\ call.target \in Idx

Pre == prev.leds[call.target]

Post == leds[call.target]

Flipped == Post.ledIsOn # Pre.ledIsOn

\* the duration the phase l is in is timed against
PhaseDuration(l) ==
  CASE l.displayMode = "BLINK" ->
         IF l.ledIsOn THEN l.blinkOnDuration ELSE l.blinkOffDuration
    [] l.displayMode = "BLINK_RANDOM" ->
         IF l.ledIsOn THEN l.randOnDuration ELSE l.randOffDuration
    [] OTHER -> l.timerDuration

\* the time from last to now on the wrapping counter
Elapsed(now, last) == (now + ClockMod - last) % ClockMod

\* the phase of l ends before the counter wraps
NoWrap(l) == l.lastTime + PhaseDuration(l) < ClockMod

BlinkCommitted(l) == l.blinkOnDuration > 0 /\ l.blinkOffDuration > 0

\* C1: an update in Blink, BlinkRandom or Timed mode ends the phase exactly
\* when the time elapsed since lastTime, modulo the counter width, has
\* reached the phase's duration, also when the counter wraps in between.
WrapSafeExpiry ==
  ( /\ OnLed("update")
    /\ Pre.displayMode \in {"BLINK", "BLINK_RANDOM", "TIMED"}
    /\ Pre.displayMode = "TIMED" => Pre.ledIsOn )
  => (Flipped <=> Elapsed(clock, Pre.lastTime) >= PhaseDuration(Pre))

\* C2 as stated: polled at most MaxTick apart and before the counter
\* wraps, every on phase lasts exactly blinkOnDuration and every off phase
\* exactly blinkOffDuration.
BlinkPhasesExact ==
  ( /\ pc = "loop" /\ OnLed("update")
    /\ Pre.displayMode = "BLINK" /\ NoWrap(Pre) /\ Flipped )
  => clock - Pre.lastTime = PhaseDuration(Pre)

\* C2 as amended: startBlink turns the LED on and stamps the time; polled at
\* most MaxTick apart and before the counter wraps, a phase ends at the
\* first update at or after its duration has elapsed, so it lasts at least
\* its duration and less than its duration plus MaxTick, and the next phase
\* starts there.
BlinkPhasesWithinPoll ==
  /\ (OnLed("startBlink") /\ BlinkCommitted(Pre))
     => /\ Post.ledIsOn /\ Post.lastTime = clock
        /\ Post.displayMode = "BLINK"
  /\ (pc = "loop" /\ OnLed("update") /\ Pre.displayMode = "BLINK" /\ NoWrap(Pre))
     => /\ Flipped <=> clock - Pre.lastTime >= PhaseDuration(Pre)
        /\ Flipped => /\ clock - Pre.lastTime < PhaseDuration(Pre) + MaxTick
                      /\ Post = [Pre EXCEPT !.ledIsOn = ~Pre.ledIsOn,
                                            !.lastTime = clock]
        /\ ~Flipped => Post = Pre

\* an off phase of the blink has ended, after the on phase before it
BlinkSecondCycle ==
  /\ pc = "loop" /\ OnLed("update")
  /\ Pre.displayMode = "BLINK" /\ NoWrap(Pre)
  /\ ~Pre.ledIsOn /\ Post.ledIsOn

\* C3: after setTimer(d), d > 0, and startTimer at t0, polled before the
\* counter wraps, the LED is on and Timed at every update with now < t0 + d,
\* the first update with now >= t0 + d turns it off and sets Manual, and
\* later updates change nothing: the LED stays off.
TimerOneShot ==
  /\ (OnLed("startTimer") /\ Pre.timerDuration > 0)
     => /\ Post.ledIsOn /\ Post.lastTime = clock
        /\ Post.displayMode = "TIMED"
  /\ (pc = "loop" /\ OnLed("update") /\ Pre.displayMode = "TIMED" /\ NoWrap(Pre))
     => IF clock < Pre.lastTime + Pre.timerDuration
        THEN Post = Pre /\ Post.ledIsOn
        ELSE Post = [Pre EXCEPT !.ledIsOn = FALSE, !.displayMode = "MANUAL"]
  /\ (pc = "loop" /\ OnLed("update") /\ Pre.displayMode = "MANUAL")
     => Post = Pre /\ writes = <<>>
  /\ (pc = "loop" /\ leds[0].displayMode = "MANUAL") => ~leds[0].ledIsOn

\* an update after the timer, started after time 0, has run out
TimerRanOutEarlier ==
  /\ pc = "loop" /\ OnLed("update")
  /\ Pre.displayMode = "MANUAL" /\ Pre.timerDuration > 0
  /\ Pre.lastTime > 0 /\ clock > Pre.lastTime + Pre.timerDuration

\* C4: from any mode turnOn leaves the LED on and Manual, turnOff leaves it
\* off and Manual, and an update in Manual mode changes nothing.
ManualOverride ==
  /\ OnLed("turnOn") => Post.ledIsOn /\ Post.displayMode = "MANUAL"
  /\ OnLed("turnOff") => ~Post.ledIsOn /\ Post.displayMode = "MANUAL"
  /\ (OnLed("update") /\ Pre.displayMode = "MANUAL")
     => Post = Pre /\ hw = prev.hw /\ writes = <<>>

\* turnOff called during the on phase of a random blink
TurnOffWhileRandomBlinkOn ==
  /\ OnLed("turnOff")
  /\ Pre.displayMode = "BLINK_RANDOM" /\ Pre.ledIsOn
  /\ ~Post.ledIsOn /\ Post.displayMode = "MANUAL"

\* C5: a start call whose own parameters are not all set changes nothing,
\* whatever the mode and the other modes' parameters: not the object, not
\* the pin.
StartGated ==
  /\ (OnLed("startBlink") /\ ~BlinkCommitted(Pre))
     => Post = Pre /\ hw = prev.hw /\ writes = <<>>
  /\ (OnLed("startRandomBlink") /\ ~RandCommitted(Pre))
     => Post = Pre /\ hw = prev.hw /\ writes = <<>>
  /\ (OnLed("startTimer") /\ Pre.timerDuration = 0)
     => Post = Pre /\ hw = prev.hw /\ writes = <<>>

\* startTimer with no timer duration set, called while the LED blinks
StartTimerUnsetWhileBlinking ==
  /\ OnLed("startTimer") /\ Pre.timerDuration = 0
  /\ Pre.displayMode = "BLINK" /\ BlinkCommitted(Pre)

\* C6: a set call with a zero among its arguments changes no stored
\* parameter (nor anything else of the object).
NoPartialCommit ==
  ( /\ call.op \in {"setBlink", "setRandomBlink", "setTimer"}
    /\ call.target \in Idx
    /\ \E k \in 1 .. Len(call.args) : call.args[k] = 0 )
  => Post = Pre

\* setRandomBlink with one zero and three positive arguments that all
\* differ from the values stored
RandomSetRejectedOverCommitted ==
  /\ OnLed("setRandomBlink")
  /\ call.args[1] = 0 /\ call.args[2] > 0
  /\ RandCommitted(Pre)
  /\ Pre.randMaxOffDuration # call.args[2]
  /\ Pre.randMinOnDuration # call.args[3]
  /\ Pre.randMaxOnDuration # call.args[4]

\* C7: turnOnAllColor(c) / turnOffAllColor(c) turns on / off and sets
\* Manual exactly the members of colour c, writes only their pins, and
\* leaves every other member and its pin as they were; ANY is a colour like
\* the others.
ColorFilterExact ==
  (call.op \in {"Sparkle::turnOnAllColor", "Sparkle::turnOffAllColor"})
  => LET c == call.args[1]
         to == (call.op = "Sparkle::turnOnAllColor")
     IN /\ \A i \in Idx :
             IF prev.leds[i].color = c
             THEN leds[i] = [prev.leds[i] EXCEPT !.ledIsOn = to,
                                                !.displayMode = "MANUAL"]
             ELSE /\ leds[i] = prev.leds[i]
                  /\ hw[leds[i].pin] = prev.hw[leds[i].pin]
        /\ {writes[k].pin : k \in 1 .. Len(writes)}
             = {prev.leds[i].pin : i \in {j \in Idx : prev.leds[j].color = c}}

\* turnOnAllColor(RED) over {RED, BLUE, RED} with the BLUE member in Timed
\* mode
RedOnBlueTimed ==
  /\ call.op = "Sparkle::turnOnAllColor" /\ call.args = <<RED>>
  /\ Len(writes) = 2
  /\ \E i \in Idx : /\ prev.leds[i].color = BLUE
                    /\ prev.leds[i].displayMode = "TIMED"
  /\ \E i \in Idx : prev.leds[i].color = RED /\ ~prev.leds[i].ledIsOn

\* C8: once initPin has been called, the level last written to the pin is
\* HIGH exactly when commonCathode = ledIsOn.
PolarityRespected ==
  \A i \in Idx :
    hw[leds[i].pin].dir = "OUTPUT"
    => (hw[leds[i].pin].level = "HIGH" <=> leds[i].commonCathode = leds[i].ledIsOn)

\* a common-anode LED driven LOW in the on phase of a blink
AnodeOnDrivenLow ==
  \E i \in Idx :
    /\ hw[leds[i].pin].dir = "OUTPUT" /\ ~leds[i].commonCathode
    /\ leds[i].ledIsOn /\ leds[i].displayMode = "BLINK"
    /\ hw[leds[i].pin].level = "LOW"

\* the call drew an on duration / an off duration
OnSampled ==
  \/ OnLed("startRandomBlink") /\ RandCommitted(Pre) /\ Post.ledIsOn
  \/ OnLed("update") /\ Pre.displayMode = "BLINK_RANDOM"
       /\ ~Pre.ledIsOn /\ Post.ledIsOn

OffSampled ==
  \/ OnLed("startRandomBlink") /\ RandCommitted(Pre) /\ ~Post.ledIsOn
  \/ OnLed("update") /\ Pre.displayMode = "BLINK_RANDOM"
       /\ Pre.ledIsOn /\ ~Post.ledIsOn

\* C9 as stated: every on duration drawn lies in [minOn, maxOn) and every
\* off duration drawn in [minOff, maxOff), whatever four positive bounds
\* were set.
RandomSamplesInRange ==
  /\ OnSampled => /\ Pre.randMinOnDuration <= Post.randOnDuration
                  /\ Post.randOnDuration < Pre.randMaxOnDuration
  /\ OffSampled => /\ Pre.randMinOffDuration <= Post.randOffDuration
                   /\ Post.randOffDuration < Pre.randMaxOffDuration

\* C9 as amended: a duration drawn lies in [min, max) when min < max, and
\* is min when min >= max.
RandomSamplesInNonEmptyRange ==
  /\ OnSampled =>
       IF Pre.randMinOnDuration < Pre.randMaxOnDuration
       THEN /\ Pre.randMinOnDuration <= Post.randOnDuration
            /\ Post.randOnDuration < Pre.randMaxOnDuration
       ELSE Post.randOnDuration = Pre.randMinOnDuration
  /\ OffSampled =>
       IF Pre.randMinOffDuration < Pre.randMaxOffDuration
       THEN /\ Pre.randMinOffDuration <= Post.randOffDuration
            /\ Post.randOffDuration < Pre.randMaxOffDuration
       ELSE Post.randOffDuration = Pre.randMinOffDuration

\* an update drew an on duration above the minimum of a range min < max
UpdateDrewAboveMin ==
  /\ OnLed("update") /\ OnSampled
  /\ Pre.randMinOnDuration < Post.randOnDuration
  /\ Post.randOnDuration < Pre.randMaxOnDuration

\* C10: a freshly constructed LedDef is Disabled, has every duration and
\* lastTime 0, and is off.
FreshLedDefaults ==
  call.op = "new"
  => \A i \in Idx :
       /\ leds[i].displayMode = "DISABLED"
       /\ leds[i].blinkOnDuration = 0 /\ leds[i].blinkOffDuration = 0
       /\ leds[i].timerDuration = 0
       /\ leds[i].randMinOffDuration = 0 /\ leds[i].randMaxOffDuration = 0
       /\ leds[i].randMinOnDuration = 0 /\ leds[i].randMaxOnDuration = 0
       /\ leds[i].randOffDuration = 0 /\ leds[i].randOnDuration = 0
       /\ leds[i].lastTime = 0
       /\ ~isOn(leds[i])

\* C11: initPin, called in any state, makes the pin an output, writes the
\* off level of the LED's polarity to it, and leaves the LED off and Manual;
\* nothing else of the object changes, the stored durations included.
InitPinForcesOff ==
  OnLed("initPin")
  => /\ hw[Pre.pin].dir = "OUTPUT"
     /\ hw[Pre.pin].level = (IF Pre.commonCathode THEN "LOW" ELSE "HIGH")
     /\ writes = <<[pin |-> Pre.pin, level |-> hw[Pre.pin].level]>>
     /\ ~isOn(Post) /\ Post.displayMode = "MANUAL"
     /\ Post = [Pre EXCEPT !.ledIsOn = FALSE, !.displayMode = "MANUAL"]

\* initPin called in the on phase of a running blink
InitPinWhileBlinkOn ==
  /\ OnLed("initPin")
  /\ Pre.displayMode = "BLINK" /\ BlinkCommitted(Pre) /\ Pre.ledIsOn
  /\ prev.hw[Pre.pin].dir = "OUTPUT"

\* the object l with the parameters of the Blink mode, of the BlinkRandom
\* mode (the four bounds) and of the Timed mode blanked
SaveBlink(l) == [l EXCEPT !.blinkOnDuration = 0, !.blinkOffDuration = 0]

SaveRandom(l) ==
  [l EXCEPT !.randMinOffDuration = 0, !.randMaxOffDuration = 0,
            !.randMinOnDuration = 0, !.randMaxOnDuration = 0]

SaveTimer(l) == [l EXCEPT !.timerDuration = 0]

\* C12: setBlink, setRandomBlink and setTimer, with any arguments and in
\* any mode, change at most the duration parameters of their own mode: not
\* the mode, isOn, lastTime, another mode's parameters or the sampled
\* durations, and they write no pin.
SetCallsFrame ==
  /\ (call.op \in {"setBlink", "setRandomBlink", "setTimer"}
       /\ call.target \in Idx)
     => /\ Post.displayMode = Pre.displayMode
        /\ Post.ledIsOn = Pre.ledIsOn
        /\ Post.lastTime = Pre.lastTime
        /\ hw = prev.hw /\ writes = <<>>
  /\ OnLed("setBlink") => SaveBlink(Post) = SaveBlink(Pre)
  /\ OnLed("setRandomBlink") => SaveRandom(Post) = SaveRandom(Pre)
  /\ OnLed("setTimer") => SaveTimer(Post) = SaveTimer(Pre)

\* setBlink committing new durations while a timer runs and random bounds
\* are stored
SetBlinkWhileTimed ==
  /\ OnLed("setBlink")
  /\ Pre.displayMode = "TIMED" /\ RandCommitted(Pre)
  /\ Post.blinkOnDuration # Pre.blinkOnDuration

\* the results the member operation behind the last Sparkle call can have
\* on member i as it was before the call
MemberResults(i) ==
  LET l == prev.leds[i] IN
  CASE call.op = "Sparkle::initPins" -> {initPin(l)}
    [] call.op = "Sparkle::allOn" -> {turnOn(l)}
    [] call.op = "Sparkle::allOff" -> {turnOff(l)}
    [] call.op = "Sparkle::update" ->
         {update(l, clock, s) : s \in UpdateSamples(l, clock)}
    [] OTHER -> {}

MemberResult(i) == CHOOSE r \in MemberResults(i) : r.led = leds[i]

\* the pin writes of the member operations on members i .. n-1, one member
\* after the other
RECURSIVE InListOrder(_, _)
InListOrder(n, i) ==
  IF i >= n THEN <<>>
  ELSE Tag(prev.leds[i].pin, MemberResult(i).w) \o InListOrder(n, i + 1)

\* C13: over a list of n members, 1 <= n <= 255, initPins, allOn, allOff
\* and update leave every member as one call of initPin, turnOn, turnOff,
\* update on it leaves it, and the pin writes are those of the member calls
\* in list order 0 .. n-1, each member's once; after allOn every member is on
\* and Manual, after allOff and initPins off and Manual.
GroupIsMemberwise ==
  (call.op \in {"Sparkle::initPins", "Sparkle::allOn", "Sparkle::allOff",
                "Sparkle::update"})
  => LET n == Cardinality(Idx) IN
     /\ n >= 1 /\ n < CountMod
     /\ \A i \in Idx : \E r \in MemberResults(i) : r.led = leds[i]
     /\ writes = InListOrder(n, 0)
     /\ \A i \in Idx :
          LET p == prev.leds[i].pin
              w == MemberResult(i).w
          IN /\ hw[p].level = IF w = <<>> THEN prev.hw[p].level ELSE w[Len(w)]
             /\ hw[p].dir = IF call.op = "Sparkle::initPins" THEN "OUTPUT"
                            ELSE prev.hw[p].dir
     /\ call.op # "Sparkle::update"
        => /\ Len(writes) = n
           /\ \A k \in 1 .. n : writes[k].pin = prev.leds[k - 1].pin
           /\ \A i \in Idx :
                /\ leds[i].ledIsOn = (call.op = "Sparkle::allOn")
                /\ leds[i].displayMode = "MANUAL"

\* one Sparkle::update that ends the timers of two members
GroupUpdateEndsTwoTimers ==
  /\ call.op = "Sparkle::update"
  /\ Len(writes) = 2 /\ writes[1].pin < writes[2].pin
  /\ \E i \in Idx : prev.leds[i].displayMode # "TIMED"

\* C14: a start call whose parameters are set takes effect from any mode,
\* mid-phase or not: startBlink leaves the LED on, stamped now and in Blink,
\* startTimer on, stamped now and Timed, startRandomBlink stamped now and
\* in BlinkRandom, in the on phase or in the off phase, either being
\* possible; an update then follows the rule of the mode the LED is in and
\* of no other: it ends the phase exactly when the comparison of update on
\* that mode's own duration says so, and touches no other mode's fields.
StartTakesOver ==
  /\ (OnLed("startBlink") /\ BlinkCommitted(Pre))
     => Post = [Pre EXCEPT !.ledIsOn = TRUE, !.lastTime = clock,
                           !.displayMode = "BLINK"]
  /\ (OnLed("startTimer") /\ Pre.timerDuration > 0)
     => Post = [Pre EXCEPT !.ledIsOn = TRUE, !.lastTime = clock,
                           !.displayMode = "TIMED"]
  /\ (OnLed("startRandomBlink") /\ RandCommitted(Pre))
     => /\ Post.lastTime = clock /\ Post.displayMode = "BLINK_RANDOM"
        /\ Post = IF Post.ledIsOn
                  THEN [Pre EXCEPT !.ledIsOn = TRUE, !.lastTime = clock,
                                   !.displayMode = "BLINK_RANDOM",
                                   !.randOnDuration = Post.randOnDuration]
                  ELSE [Pre EXCEPT !.ledIsOn = FALSE, !.lastTime = clock,
                                   !.displayMode = "BLINK_RANDOM",
                                   !.randOffDuration = Post.randOffDuration]
        /\ \A to \in BOOLEAN :
             \E coin \in RandomCoin : \E sample \in StartSamples(Pre, coin) :
               startRandomBlink(Pre, clock, coin, sample).led.ledIsOn = to
  /\ (OnLed("update") /\ Pre.displayMode = "BLINK")
     => IF Expired(clock, Pre.lastTime,
                   IF Pre.ledIsOn THEN Pre.blinkOnDuration
                   ELSE Pre.blinkOffDuration)
        THEN Post = [Pre EXCEPT !.ledIsOn = ~Pre.ledIsOn, !.lastTime = clock]
        ELSE Post = Pre
  /\ (OnLed("update") /\ Pre.displayMode = "TIMED")
     => IF Pre.ledIsOn /\ Expired(clock, Pre.lastTime, Pre.timerDuration)
        THEN Post = [Pre EXCEPT !.ledIsOn = FALSE, !.displayMode = "MANUAL"]
        ELSE Post = Pre
  /\ (OnLed("update") /\ Pre.displayMode = "BLINK_RANDOM")
     => IF Expired(clock, Pre.lastTime,
                   IF Pre.ledIsOn THEN Pre.randOnDuration
                   ELSE Pre.randOffDuration)
        THEN [Post EXCEPT !.randOnDuration = 0, !.randOffDuration = 0]
               = [Pre EXCEPT !.ledIsOn = ~Pre.ledIsOn, !.lastTime = clock,
                             !.randOnDuration = 0, !.randOffDuration = 0]
        ELSE Post = Pre

\* startBlink called in the off phase of a running random blink, some time
\* into the phase
StartBlinkOverRandomBlink ==
  /\ OnLed("startBlink") /\ BlinkCommitted(Pre)
  /\ Pre.displayMode = "BLINK_RANDOM" /\ ~Pre.ledIsOn
  /\ Pre.lastTime # clock
  /\ Post.displayMode = "BLINK" /\ Post.ledIsOn

\* C15: in Blink mode, the counter not wrapping, update flips the LED,
\* writes its pin and stamps lastTime = now if and only if now - lastTime
\* has reached the duration of the phase the LED is in (blinkOnDuration
\* while on, blinkOffDuration while off); otherwise it changes nothing and
\* writes nothing.  So no phase ends before its duration has elapsed.
BlinkFlipIffDue ==
  ( /\ OnLed("update") /\ Pre.displayMode = "BLINK"
    /\ NoWrap(Pre) /\ clock >= Pre.lastTime )
  => LET due == IF Pre.ledIsOn THEN Pre.blinkOnDuration
                ELSE Pre.blinkOffDuration
     IN IF clock - Pre.lastTime >= due
        THEN /\ Post = [Pre EXCEPT !.ledIsOn = ~Pre.ledIsOn,
                                   !.lastTime = clock]
             /\ Len(writes) = 1
             /\ hw[Pre.pin].level = (IF Pre.ledIsOn = Pre.commonCathode
                                     THEN "LOW" ELSE "HIGH")
        ELSE Post = Pre /\ writes = <<>> /\ hw = prev.hw

\* an update inside an off phase of the blink, after time has passed but
\* before the off duration, which differs from the on duration, is over
BlinkUpdateMidOffPhase ==
  /\ OnLed("update") /\ Pre.displayMode = "BLINK" /\ NoWrap(Pre)
  /\ ~Pre.ledIsOn /\ Pre.blinkOffDuration # Pre.blinkOnDuration
  /\ clock > Pre.lastTime /\ clock - Pre.lastTime < Pre.blinkOffDuration
  /\ ~Post.ledIsOn

\* C16: in BlinkRandom mode, the counter not wrapping, update flips the
\* phase if and only if now - lastTime has reached the sampled duration of
\* the phase the LED is in (randOnDuration while on, randOffDuration while
\* off), whatever the min and max bounds are.  That duration is the one
\* drawn, from the bounds then stored, by the call that entered the phase,
\* startRandomBlink or the flipping update, which also stamped lastTime; no
\* other call changes it while the phase lasts, and it is never 0.
RandomBlinkTimedOnSample ==
  /\ ( /\ OnLed("update") /\ Pre.displayMode = "BLINK_RANDOM"
       /\ NoWrap(Pre) /\ clock >= Pre.lastTime )
     => /\ Flipped <=> clock - Pre.lastTime >=
                         (IF Pre.ledIsOn THEN Pre.randOnDuration
                          ELSE Pre.randOffDuration)
        /\ ~Flipped => Post = Pre
  /\ OnSampled
     => /\ Post.randOnDuration
             \in RandomRange(Pre.randMinOnDuration, Pre.randMaxOnDuration)
        /\ Post.randOffDuration = Pre.randOffDuration
        /\ Post.lastTime = clock /\ Post.displayMode = "BLINK_RANDOM"
  /\ OffSampled
     => /\ Post.randOffDuration
             \in RandomRange(Pre.randMinOffDuration, Pre.randMaxOffDuration)
        /\ Post.randOnDuration = Pre.randOnDuration
        /\ Post.lastTime = clock /\ Post.displayMode = "BLINK_RANDOM"
  /\ ( /\ call.target \in Idx /\ Post.displayMode = "BLINK_RANDOM"
       /\ ~OnSampled /\ ~OffSampled )
     => /\ Pre.displayMode = "BLINK_RANDOM"
        /\ Post.ledIsOn = Pre.ledIsOn /\ Post.lastTime = Pre.lastTime
        /\ PhaseDuration(Post) = PhaseDuration(Pre)
  /\ \A i \in Idx :
       leds[i].displayMode = "BLINK_RANDOM" => PhaseDuration(leds[i]) > 0

\* an update in an on phase whose sampled duration lies above the minimum:
\* the minimum has elapsed, the sampled duration has not, and the LED stays
\* on
RandomOnPhaseOutlastsMin ==
  /\ OnLed("update") /\ Pre.displayMode = "BLINK_RANDOM" /\ NoWrap(Pre)
  /\ Pre.ledIsOn /\ clock >= Pre.lastTime
  /\ clock - Pre.lastTime >= Pre.randMinOnDuration
  /\ clock - Pre.lastTime < Pre.randOnDuration
  /\ Post.ledIsOn

\* C17: update in Manual or Disabled mode changes nothing of the object
\* and writes no pin, whatever time has passed and whatever parameters are
\* stored.
UpdateIdleNoEffect ==
  (OnLed("update") /\ Pre.displayMode \in {"MANUAL", "DISABLED"})
  => /\ Post = Pre
     /\ hw = prev.hw
     /\ writes = <<>>

\* an update in Manual mode with the LED on, a timer duration stored and
\* the counter past the last stamp
UpdateManualOnTimerSet ==
  /\ OnLed("update") /\ Pre.displayMode = "MANUAL"
  /\ Pre.ledIsOn /\ Pre.timerDuration > 0 /\ BlinkCommitted(Pre)
  /\ clock # Pre.lastTime

\* C18: in every reachable state an LED in Timed mode is on.
TimedIsOn ==
  \A i \in Idx : leds[i].displayMode = "TIMED" => leds[i].ledIsOn

\* an update that finds a timer, started on an LED with blink durations
\* stored, still running after time has passed
TimerOverBlinkStillRunning ==
  /\ OnLed("update") /\ Post.displayMode = "TIMED" /\ Post.ledIsOn
  /\ BlinkCommitted(Post) /\ clock # Post.lastTime

\* C19: no LED is ever in Fade mode; initPin, turnOn, turnOff and a start
\* call whose parameters are set leave it in a mode other than Disabled;
\* and an LED that is not Disabled before a call is in Manual, Timed, Blink
\* or BlinkRandom mode after it.
ModesClosed ==
  /\ \A i \in Idx :
       /\ leds[i].displayMode \in Modes \ {"FADE"}
       /\ prev.leds[i].displayMode # "DISABLED"
          => leds[i].displayMode
               \in {"MANUAL", "TIMED", "BLINK", "BLINK_RANDOM"}
  /\ ( \/ call.op \in {"initPin", "turnOn", "turnOff"} /\ call.target \in Idx
       \/ OnLed("startBlink") /\ BlinkCommitted(Pre)
       \/ OnLed("startRandomBlink") /\ RandCommitted(Pre)
       \/ OnLed("startTimer") /\ Pre.timerDuration > 0 )
     => Post.displayMode # "DISABLED"

\* turnOff called on an LED that a start call, with initPin never called,
\* took out of Disabled mode
TurnOffAfterLeavingDisabled ==
  /\ OnLed("turnOff")
  /\ Pre.displayMode \in {"TIMED", "BLINK", "BLINK_RANDOM"}
  /\ prev.hw[Pre.pin].dir = "INPUT"

\* C20: whatever the length n of the list the Sparkle is built over, n >=
\* 256 included, count is n and the group methods reach all n members:
\* after allOn every member of the list is on, after allOff and initPins
\* every member is off, all of them Manual.
CountIsListLength ==
  /\ count = Cardinality(Idx)
  /\ (call.op \in {"Sparkle::initPins", "Sparkle::allOn", "Sparkle::allOff"})
     => \A i \in Idx :
          /\ leds[i].ledIsOn = (call.op = "Sparkle::allOn")
          /\ leds[i].displayMode = "MANUAL"

====
